---- MODULE Spec2Model ----
(***************************************************************************)
(* General Yankee Swap allocation engine (src/fair/allocation.py) in its   *)
(* naive variant (general_yankee_swap) and its edge-matrix variant         *)
(* (general_yankee_swap_E), and the envy metrics of src/fair/envy.py.      *)
(*                                                                         *)
(* Both engines are run on the same input.  One step of the model is one   *)
(* outer iteration of the while loop of each engine that is still running. *)
(* networkx's choice among several shortest paths is left open; when the   *)
(* two engines search the same graph they are given the same path.         *)
(***************************************************************************)
EXTENDS Integers, Sequences, FiniteSets, TLC

(* ---------------------------- bounds ----------------------------------- *)
MaxItems == 3
MaxAgents == 3
MaxCap == 2
MaxWeight == 2

(* What find_agent returns when it falls off its loop (Python None), and   *)
(* the marker used here for an IndexError raised while looking up an owner.*)
None == -1
Raised == -2

(* ------------------------------ state ---------------------------------- *)
(* The arguments of a run: agents is the list of the agents' kinds, items  *)
(* the list of the items' capacities (the item at position i + 1 has index *)
(* i), criteria and weights as passed.  ys is the state of                 *)
(* general_yankee_swap and ysE that of general_yankee_swap_E on them.      *)
VARIABLES agents, items, criteria, weights, ys, ysE, envy, rr

vars == <<agents, items, criteria, weights, ys, ysE, envy, rr>>

N == Len(items)
M == Len(agents)

ItemIdx == 0 .. (N - 1)
AgentIdx == 0 .. (M - 1)
Columns == 0 .. M

(* Node "t" of the exchange graph and the transient node "s".              *)
t == N
s == N + 1

(* ------------------- agents (fair/agent.py, not in src) ----------------- *)
(* An agent is a valuation over bundles and a list of desired items; the   *)
(* runs draw their agents from the kinds below.                            *)
(*   additive   values every item 1 and desires them all;                  *)
(*   picky      values every item 1 but desires all except the last one;   *)
(*   clash      item 0 overlaps items 1 and 2: a bundle is worth the       *)
(*              largest number of its items that can be attended together; *)
(*   scenarioA  a bundle is worth its size, and nothing once it holds      *)
(*              item 0, which is not desired;                              *)
(*   first      values and desires item 0 only;                            *)
(*   nothing    desires no item;                                           *)
(*   loner      values the empty bundle only (used by the envy metrics).   *)
AgentKinds == {"additive", "picky", "clash", "scenarioA", "first", "nothing"}

NoClash(S) == 0 \in S => (1 \notin S /\ 2 \notin S)

MaxOf(S) == CHOOSE x \in S : \A y \in S : y <= x

get_desired_items_indexes(kind) ==
    CASE kind = "additive" -> ItemIdx
      [] kind = "picky" -> ItemIdx \ {N - 1}
      [] kind = "clash" -> ItemIdx
      [] kind = "scenarioA" -> ItemIdx \ {0}
      [] kind = "first" -> ItemIdx \cap {0}
      [] kind = "nothing" -> {}
      [] kind = "loner" -> ItemIdx

valuation(kind, bundle) ==
    CASE kind = "additive" -> Cardinality(bundle)
      [] kind = "picky" -> Cardinality(bundle)
      [] kind = "clash" ->
            MaxOf({Cardinality(T) : T \in {U \in SUBSET bundle : NoClash(U)}})
      [] kind = "scenarioA" ->
            IF 0 \in bundle THEN 0 ELSE Cardinality(bundle)
      [] kind = "first" -> IF 0 \in bundle THEN 1 ELSE 0
      [] kind = "nothing" -> 0
      [] kind = "loner" -> IF bundle = {} THEN 1 ELSE 0

marginal_contribution(kind, bundle, item) ==
    valuation(kind, bundle \cup {item}) - valuation(kind, bundle)

exchange_contribution(kind, bundle, og_item, new_item) ==
    /\ og_item \in bundle
    /\ valuation(kind, (bundle \ {og_item}) \cup {new_item}) = valuation(kind, bundle)

(* ------------------------ gains as rationals --------------------------- *)
(* A gain is <<n, d>> with d > 0 for the number n/d, <<1, 0>> for          *)
(* float("inf") and <<-1, 0>> for float("-inf").                           *)
PosInf == <<1, 0>>
NegInf == <<-1, 0>>

GainLess(a, b) ==
    IF a[2] = 0 \/ b[2] = 0
    THEN (IF a[2] = 0 THEN a[1] ELSE 0) < (IF b[2] = 0 THEN b[1] ELSE 0)
    ELSE a[1] * b[2] < b[1] * a[2]

GainEq(a, b) == ~GainLess(a, b) /\ ~GainLess(b, a)

RECURSIVE Pow(_, _)
Pow(b, e) == IF e = 0 THEN 1 ELSE b * Pow(b, e - 1)

(* ------------------------- initializations ----------------------------- *)
initialize_allocation_matrix ==
    [i \in ItemIdx |-> [j \in Columns |-> IF j = M THEN items[i + 1] ELSE 0]]

initialize_edge_matrix ==
    [a \in ItemIdx |-> [b \in ItemIdx |-> <<>>]]

initialize_exchange_graph_no_sink ==
    [nodes |-> ItemIdx \cup {t}, edges |-> {}]

initialize_exchange_graph ==
    [nodes |-> ItemIdx \cup {t}, edges |-> {<<i, t>> : i \in ItemIdx}]

(* --------------------- retrieve / update information ------------------- *)
get_bundle_from_allocation_matrix(X, agent_index) ==
    {i \in ItemIdx : X[i][agent_index] = 1}

get_owners_list(X, item_index) ==
    {j \in Columns : X[item_index][j] # 0}

get_gain_function(X, agent_picked) ==
    LET val == valuation(agents[agent_picked + 1],
                         get_bundle_from_allocation_matrix(X, agent_picked))
        w_i == weights[agent_picked + 1]
    IN CASE criteria = "LorenzDominance" -> <<-val, 1>>
         [] criteria = "WeightedLeximin" -> <<-val, w_i>>
         [] criteria = "WeightedNash" ->
               IF val = 0 THEN PosInf ELSE <<Pow(val + 1, w_i), Pow(val, w_i)>>
         [] criteria = "WeightedHarmonic" -> <<w_i, val + 1>>

get_multiple_agents_desired_items(agents_indexes) ==
    UNION {get_desired_items_indexes(agents[j + 1]) : j \in agents_indexes}

get_multiple_agents_bundles(X, agents_indexes) ==
    UNION {get_bundle_from_allocation_matrix(X, j) : j \in agents_indexes}

(* Owners are visited in increasing column order; the slack column is the  *)
(* last one and agents[len(agents)] raises IndexError.                     *)
find_agent(X, current_item_index, last_item_index) ==
    LET owners == get_owners_list(X, current_item_index)
        willing == {j \in owners \ {M} :
                       exchange_contribution(agents[j + 1],
                           get_bundle_from_allocation_matrix(X, j),
                           current_item_index, last_item_index)}
    IN IF willing # {} THEN CHOOSE j \in willing : \A k \in willing : j <= k
       ELSE IF M \in owners THEN Raised
       ELSE None

(* X[row, col] = v; numpy reads a column index of None as a new axis, so   *)
(* the assignment then covers the whole row.                               *)
SetEntry(X, row, col, v) ==
    IF col = None THEN [X EXCEPT ![row] = [j \in Columns |-> v]]
    ELSE [X EXCEPT ![row][col] = v]

(* ------------- update allocation after finding the path ---------------- *)
(* The while loop of update_allocation, on the path without "s" and "t".   *)
(* hops records, for each exchange, the items, the agent that was taken    *)
(* and what that agent held at that moment.                                *)
Hop(X, out_item, in_item, agent) ==
    [out |-> out_item, in |-> in_item, agent |-> agent,
     held_out |-> agent \in AgentIdx /\ X[out_item][agent] = 1,
     held_in |-> agent \in AgentIdx /\ X[in_item][agent] = 1,
     willing |-> \E j \in AgentIdx :
                    /\ X[out_item][j] # 0
                    /\ exchange_contribution(agents[j + 1],
                          get_bundle_from_allocation_matrix(X, j), out_item, in_item)]

RECURSIVE update_allocation_loop(_, _, _, _, _)
update_allocation_loop(X, path, agent_picked, agents_involved, hops) ==
    IF Len(path) = 0
    THEN [X |-> X, agents_involved |-> agents_involved, hops |-> hops, raised |-> FALSE]
    ELSE LET last_item == path[Len(path)]
             rest == SubSeq(path, 1, Len(path) - 1)
         IN IF Len(rest) > 0
            THEN LET next_to_last_item == rest[Len(rest)]
                     current_agent == find_agent(X, next_to_last_item, last_item)
                     X1 == SetEntry(X, last_item, current_agent, 1)
                     X2 == SetEntry(X1, next_to_last_item, current_agent, 0)
                 IN IF current_agent = Raised
                    THEN [X |-> X, agents_involved |-> agents_involved,
                          hops |-> hops, raised |-> TRUE]
                    ELSE update_allocation_loop(X2, rest, agent_picked,
                             Append(agents_involved, current_agent),
                             Append(hops, Hop(X, next_to_last_item, last_item, current_agent)))
            ELSE update_allocation_loop(SetEntry(X, last_item, agent_picked, 1),
                     rest, agent_picked, agents_involved, hops)

update_allocation_keeps_slack(X, path_og, agent_picked) ==
    update_allocation_loop(X, SubSeq(path_og, 2, Len(path_og) - 1), agent_picked,
                           <<agent_picked>>, <<>>)

update_allocation(X, path_og, agent_picked) ==
    LET path == SubSeq(path_og, 2, Len(path_og) - 1)
        last_item == path[Len(path)]
        X0 == [X EXCEPT ![last_item][M] = @ - 1]
    IN update_allocation_loop(X0, path, agent_picked, <<agent_picked>>, <<>>)

(* list.remove(x): drops the first occurrence of x.                        *)
RECURSIVE Remove(_, _)
Remove(list, x) ==
    IF list = <<>> THEN <<>>
    ELSE IF Head(list) = x THEN Tail(list)
    ELSE <<Head(list)>> \o Remove(Tail(list), x)

InList(x, list) == \E k \in 1 .. Len(list) : list[k] = x

DropResponsibility_keeps_edge(G, E, item, current_agent) ==
    [G |-> G,
     E |-> [E EXCEPT ![item] =
              [b \in ItemIdx |-> IF InList(current_agent, E[item][b])
                                 THEN Remove(E[item][b], current_agent)
                                 ELSE E[item][b]]]]

(* The inner for loop of update_allocation_E: current_agent stops being    *)
(* responsible for every edge that leaves the item it gave away.           *)
DropResponsibility(G, E, item, current_agent) ==
    LET touched == {b \in ItemIdx : InList(current_agent, E[item][b])}
        E1 == [E EXCEPT ![item] =
                  [b \in ItemIdx |-> IF b \in touched
                                     THEN Remove(E[item][b], current_agent)
                                     ELSE E[item][b]]]
        gone == {<<item, b>> : b \in {c \in touched : Len(E1[item][c]) = 0}}
    IN [G |-> [G EXCEPT !.edges = @ \ gone], E |-> E1]

RECURSIVE update_allocation_E_loop(_, _, _, _, _, _, _)
update_allocation_E_loop(X, G, E, path, agent_picked, agents_involved, hops) ==
    IF Len(path) = 0
    THEN [X |-> X, G |-> G, E |-> E, agents_involved |-> agents_involved,
          hops |-> hops, raised |-> FALSE]
    ELSE LET last_item == path[Len(path)]
             rest == SubSeq(path, 1, Len(path) - 1)
         IN IF Len(rest) > 0
            THEN LET next_to_last_item == rest[Len(rest)]
                     owners == E[next_to_last_item][last_item]
                 IN IF Len(owners) = 0
                    THEN [X |-> X, G |-> G, E |-> E, agents_involved |-> agents_involved,
                          hops |-> hops, raised |-> TRUE]
                    ELSE LET current_agent == owners[1]
                             X1 == SetEntry(X, last_item, current_agent, 1)
                             X2 == SetEntry(X1, next_to_last_item, current_agent, 0)
                             GE == DropResponsibility(G, E, next_to_last_item, current_agent)
                         IN update_allocation_E_loop(X2, GE.G, GE.E, rest, agent_picked,
                                Append(agents_involved, current_agent),
                                Append(hops, Hop(X, next_to_last_item, last_item, current_agent)))
            ELSE update_allocation_E_loop(SetEntry(X, last_item, agent_picked, 1),
                     G, E, rest, agent_picked, agents_involved, hops)

update_allocation_E(X, G, E, path_og, agent_picked) ==
    LET path == SubSeq(path_og, 2, Len(path_og) - 1)
        last_item == path[Len(path)]
        X0 == [X EXCEPT ![last_item][M] = @ - 1]
    IN update_allocation_E_loop(X0, G, E, path, agent_picked, <<agent_picked>>, <<>>)

(* ------------------ graph functions for the exchange graph ------------- *)
(* nx.shortest_path(G, "s", "t") is a breadth-first search.  frontier holds  *)
(* the paths from "s" to the nodes first reached in the current round;      *)
(* the result holds every path the call may return and is empty where the   *)
(* call raises, which find_shortest_path turns into False.                  *)
RECURSIVE breadth_first(_, _, _)
breadth_first(G, frontier, seen) ==
    LET arrived == {p \in frontier : <<p[Len(p)], t>> \in G.edges}
        steps == {pn \in frontier \X (ItemIdx \ seen) :
                     <<pn[1][Len(pn[1])], pn[2]>> \in G.edges}
    IN IF frontier = {} THEN {}
       ELSE IF arrived # {} THEN {Append(p, t) : p \in arrived}
       ELSE breadth_first(G, {Append(pn[1], pn[2]) : pn \in steps},
                          seen \cup {pn[2] : pn \in steps})

(* Every way of continuing the paths of frontier to "t" along edges of G   *)
(* without passing a node twice.                                           *)
RECURSIVE walks(_, _)
walks(G, frontier) ==
    LET ext == {Append(pn[1], pn[2]) :
                   pn \in {qn \in frontier \X G.nodes :
                              /\ <<qn[1][Len(qn[1])], qn[2]>> \in G.edges
                              /\ \A k \in 1 .. Len(qn[1]) : qn[1][k] # qn[2]}}
    IN IF frontier = {} THEN {}
       ELSE {p \in ext : p[Len(p)] = t} \cup walks(G, {p \in ext : p[Len(p)] # t})

find_any_path(G) == walks(G, {<<s>>})

find_shortest_path(G) == breadth_first(G, {<<s>>}, {})

add_agent_to_exchange_graph_all_items(X, G, agent_picked) ==
    LET bundle == get_bundle_from_allocation_matrix(X, agent_picked)
        kind == agents[agent_picked + 1]
    IN [nodes |-> G.nodes \cup {s},
        edges |-> G.edges \cup
                  {<<s, i>> : i \in {g \in ItemIdx :
                                       /\ g \notin bundle
                                       /\ marginal_contribution(kind, bundle, g) = 1}}]

add_agent_to_exchange_graph(X, G, agent_picked) ==
    LET bundle == get_bundle_from_allocation_matrix(X, agent_picked)
        kind == agents[agent_picked + 1]
    IN [nodes |-> G.nodes \cup {s},
        edges |-> G.edges \cup
                  {<<s, i>> : i \in {g \in get_desired_items_indexes(kind) :
                                       /\ g \notin bundle
                                       /\ marginal_contribution(kind, bundle, g) = 1}}]

remove_node_keeps_node(G, n) ==
    [nodes |-> G.nodes, edges |-> {e \in G.edges : e[1] # n /\ e[2] # n}]

remove_node_keeps_edges(G, n) ==
    [nodes |-> G.nodes \ {n}, edges |-> G.edges]

remove_node(G, n) ==
    [nodes |-> G.nodes \ {n},
     edges |-> {e \in G.edges : e[1] # n /\ e[2] # n}]

(* update_exchange_graph: every pair (item_idx, item_2_idx) it visits is   *)
(* set to "some owner of item_idx exchanges it for item_2_idx".            *)
update_exchange_graph(X, G, path_og, agents_involved) ==
    LET path == SubSeq(path_og, 2, Len(path_og) - 1)
        last_item == path[Len(path)]
        G0 == IF X[last_item][M] = 0
              THEN [G EXCEPT !.edges = @ \ {<<last_item, t>>}] ELSE G
        involved == {agents_involved[k] : k \in 1 .. Len(agents_involved)}
        agents_involved_desired_items == get_multiple_agents_desired_items(involved)
        agents_involved_bundles == get_multiple_agents_bundles(X, involved)
        owners(item_idx) == get_owners_list(X, item_idx) \ {M}
        visited == {pr \in agents_involved_bundles \X ItemIdx :
                      /\ pr[2] # pr[1]
                      /\ pr[2] \in agents_involved_desired_items
                                   \cup get_multiple_agents_desired_items(owners(pr[1]))}
        exchangeable(pr) ==
            \E owner \in owners(pr[1]) :
                exchange_contribution(agents[owner + 1],
                    get_bundle_from_allocation_matrix(X, owner), pr[1], pr[2])
    IN [G0 EXCEPT !.edges = (@ \ {pr \in visited : ~exchangeable(pr)})
                               \cup {pr \in visited : exchangeable(pr)}]

(* update_exchange_graph_E for one agent of agents_involved.               *)
update_exchange_graph_E_agent(X, GE, agent_index) ==
    LET kind == agents[agent_index + 1]
        agent_bundle == get_bundle_from_allocation_matrix(X, agent_index)
        agent_desired_items == get_desired_items_indexes(kind)
        visits(a, b) == a \in agent_bundle /\ b \in agent_desired_items /\ a # b
        listed(a, b) == InList(agent_index, GE.E[a][b])
        exch(a, b) == exchange_contribution(kind, agent_bundle, a, b)
        E1 == [a \in ItemIdx |-> [b \in ItemIdx |->
                 IF ~visits(a, b) THEN GE.E[a][b]
                 ELSE IF listed(a, b)
                      THEN (IF exch(a, b) THEN GE.E[a][b] ELSE Remove(GE.E[a][b], agent_index))
                      ELSE (IF exch(a, b) THEN Append(GE.E[a][b], agent_index) ELSE GE.E[a][b])]]
        removed == {pr \in ItemIdx \X ItemIdx :
                      /\ visits(pr[1], pr[2]) /\ listed(pr[1], pr[2])
                      /\ ~exch(pr[1], pr[2]) /\ Len(E1[pr[1]][pr[2]]) = 0}
        added == {pr \in ItemIdx \X ItemIdx :
                      visits(pr[1], pr[2]) /\ ~listed(pr[1], pr[2]) /\ exch(pr[1], pr[2])}
    IN [G |-> [GE.G EXCEPT !.edges = (@ \ removed) \cup added], E |-> E1]

RECURSIVE update_exchange_graph_E_loop(_, _, _)
update_exchange_graph_E_loop(X, GE, agents_involved) ==
    IF agents_involved = <<>> THEN GE
    ELSE update_exchange_graph_E_loop(X,
             update_exchange_graph_E_agent(X, GE, Head(agents_involved)),
             Tail(agents_involved))

update_exchange_graph_E(X, G, E, path_og, agents_involved) ==
    LET path == SubSeq(path_og, 2, Len(path_og) - 1)
        last_item == path[Len(path)]
        G0 == IF X[last_item][M] = 0
              THEN [G EXCEPT !.edges = @ \ {<<last_item, t>>}] ELSE G
    IN update_exchange_graph_E_loop(X, [G |-> G0, E |-> E], agents_involved)

(* --------------------------- the two engines --------------------------- *)
(* np.argmax: the first index that holds the largest entry.                *)
argmax_last(gain_vector) ==
    CHOOSE j \in AgentIdx :
        /\ \A k \in AgentIdx : ~GainLess(gain_vector[j], gain_vector[k])
        /\ \A k \in AgentIdx : k > j => GainLess(gain_vector[k], gain_vector[j])

(* np.argmax: the first index that holds the largest entry.                *)
argmax(gain_vector) ==
    CHOOSE j \in AgentIdx :
        /\ \A k \in AgentIdx : ~GainLess(gain_vector[j], gain_vector[k])
        /\ \A k \in AgentIdx : k < j => GainLess(gain_vector[k], gain_vector[j])

NoLast == [agent_picked |-> None, path |-> <<>>, hops |-> <<>>,
           gain_before |-> <<>>, players_before |-> <<>>, val_before |-> 0]

(* The state of a run before its while loop is entered.                    *)
Start(with_E) ==
    [X |-> initialize_allocation_matrix,
     G |-> initialize_exchange_graph,
     E |-> IF with_E THEN initialize_edge_matrix ELSE <<>>,
     players |-> [k \in 1 .. M |-> k - 1],
     gain_vector |-> [j \in AgentIdx |-> <<0, 1>>],
     count |-> 0,
     time_steps |-> <<>>,
     agents_involved_arr |-> <<>>,
     status |-> "running",
     last |-> NoLast]

Running(run) == run.status = "running"

(* The graph handed to find_shortest_path in the coming iteration.         *)
Extended(run) == add_agent_to_exchange_graph(run.X, run.G, argmax(run.gain_vector))

(* The paths the coming iteration may get from find_shortest_path;         *)
(* <<>> stands for the result False.                                       *)
Paths(run) ==
    LET found == find_shortest_path(Extended(run))
    IN IF ~Running(run) \/ found = {} THEN {<<>>} ELSE found

History(run, agent_picked, path, hops) ==
    [agent_picked |-> agent_picked, path |-> path, hops |-> hops,
     gain_before |-> run.gain_vector, players_before |-> run.players,
     val_before |-> valuation(agents[agent_picked + 1],
                       get_bundle_from_allocation_matrix(run.X, agent_picked))]

Saturate_keeps_gain(run, agent_picked) ==
    LET players == Remove(run.players, agent_picked)
    IN [run EXCEPT
          !.players = players,
          !.count = @ + 1,
          !.time_steps = Append(@, run.count + 1),
          !.agents_involved_arr = Append(@, 0),
          !.status = IF ~InList(agent_picked, run.players) THEN "ValueError"
                     ELSE IF Len(players) > 0 THEN "running" ELSE "returned",
          !.last = History(run, agent_picked, <<>>, <<>>)]

Saturate_keeps_player(run, agent_picked) ==
    [run EXCEPT
       !.gain_vector = [@ EXCEPT ![agent_picked] = NegInf],
       !.count = @ + 1,
       !.time_steps = Append(@, run.count + 1),
       !.agents_involved_arr = Append(@, 0),
       !.last = History(run, agent_picked, <<>>, <<>>)]

Saturate_drops_graph(run, agent_picked) ==
    LET players == Remove(run.players, agent_picked)
    IN [run EXCEPT
          !.G = initialize_exchange_graph,
          !.players = players,
          !.gain_vector = [@ EXCEPT ![agent_picked] = NegInf],
          !.count = @ + 1,
          !.time_steps = Append(@, run.count + 1),
          !.agents_involved_arr = Append(@, 0),
          !.status = IF ~InList(agent_picked, run.players) THEN "ValueError"
                     ELSE IF Len(players) > 0 THEN "running" ELSE "returned",
          !.last = History(run, agent_picked, <<>>, <<>>)]

Saturate_ends_run(run, agent_picked) ==
    [run EXCEPT
       !.G = remove_node(Extended(run), s),
       !.players = <<>>,
       !.gain_vector = [j \in AgentIdx |-> NegInf],
       !.count = @ + 1,
       !.time_steps = Append(@, run.count + 1),
       !.agents_involved_arr = Append(@, 0),
       !.status = "returned",
       !.last = History(run, agent_picked, <<>>, <<>>)]

(* The branch "path == False" of either loop.                              *)
Saturate(run, agent_picked) ==
    LET players == Remove(run.players, agent_picked)
    IN [run EXCEPT
          !.G = remove_node(Extended(run), s),
          !.players = players,
          !.gain_vector = [@ EXCEPT ![agent_picked] = NegInf],
          !.count = @ + 1,
          !.time_steps = Append(@, run.count + 1),
          !.agents_involved_arr = Append(@, 0),
          !.status = IF ~InList(agent_picked, run.players) THEN "ValueError"
                     ELSE IF Len(players) > 0 THEN "running" ELSE "returned",
          !.last = History(run, agent_picked, <<>>, <<>>)]

NeedsWeight == criteria # "LorenzDominance"

Progress_counts_owners(run, agent_picked, path, upd, G) ==
    [run EXCEPT
       !.X = upd.X,
       !.G = G,
       !.gain_vector = [@ EXCEPT ![agent_picked] = get_gain_function(upd.X, agent_picked)],
       !.count = @ + 1,
       !.time_steps = Append(@, run.count + 1),
       !.agents_involved_arr = Append(@, Len(upd.agents_involved) - 1),
       !.last = History(run, agent_picked, path, upd.hops)]

(* The else branch once X and G are updated: the gain of the picked agent  *)
(* and the two series.                                                     *)
Progress(run, agent_picked, path, upd, G) ==
    IF NeedsWeight /\ Len(weights) <= agent_picked
    THEN [run EXCEPT !.X = upd.X, !.G = G, !.count = @ + 1, !.status = "IndexError",
                     !.last = History(run, agent_picked, path, upd.hops)]
    ELSE [run EXCEPT
            !.X = upd.X,
            !.G = G,
            !.gain_vector = [@ EXCEPT ![agent_picked] = get_gain_function(upd.X, agent_picked)],
            !.count = @ + 1,
            !.time_steps = Append(@, run.count + 1),
            !.agents_involved_arr = Append(@, Len(upd.agents_involved)),
            !.last = History(run, agent_picked, path, upd.hops)]

(* One pass through the while loop of general_yankee_swap.                 *)
general_yankee_swap(run, path) ==
    LET agent_picked == argmax(run.gain_vector)
        upd == update_allocation(run.X, path, agent_picked)
        involved == {upd.agents_involved[k] : k \in 1 .. Len(upd.agents_involved)}
    IN IF path = <<>> THEN Saturate(run, agent_picked)
       ELSE IF upd.raised
       THEN [run EXCEPT !.X = upd.X, !.count = @ + 1, !.status = "IndexError",
                        !.last = History(run, agent_picked, path, upd.hops)]
       ELSE IF None \in involved
       THEN [run EXCEPT !.X = upd.X, !.count = @ + 1, !.status = "TypeError",
                        !.last = History(run, agent_picked, path, upd.hops)]
       ELSE Progress(run, agent_picked, path, upd,
                     update_exchange_graph(upd.X, remove_node(Extended(run), s), path,
                                           upd.agents_involved))

(* One pass through the while loop of general_yankee_swap_E.               *)
general_yankee_swap_E(run, path) ==
    LET agent_picked == argmax(run.gain_vector)
        upd == update_allocation_E(run.X, remove_node(Extended(run), s), run.E, path,
                                   agent_picked)
        GE == update_exchange_graph_E(upd.X, upd.G, upd.E, path, upd.agents_involved)
    IN IF path = <<>> THEN Saturate(run, agent_picked)
       ELSE IF upd.raised
       THEN [run EXCEPT !.X = upd.X, !.G = upd.G, !.E = upd.E, !.count = @ + 1,
                        !.status = "IndexError",
                        !.last = History(run, agent_picked, path, upd.hops)]
       ELSE [Progress(run, agent_picked, path, upd, GE.G) EXCEPT !.E = GE.E]

(* ------------------------------ the runs ------------------------------- *)
Criteria == {"LorenzDominance", "WeightedLeximin", "WeightedNash", "WeightedHarmonic"}

(* The weights of a run of m agents: the default [] under LorenzDominance, *)
(* which never reads them, and 1, 2, .., MaxWeight, 1, 2, .. otherwise.    *)
WeightList(crit, m) ==
    IF crit = "LorenzDominance" THEN <<>>
    ELSE [k \in 1 .. m |-> ((k - 1) % MaxWeight) + 1]

Init ==
    /\ \E m \in 1 .. MaxAgents : agents \in [1 .. m -> AgentKinds]
    /\ \E n \in 1 .. MaxItems : items \in [1 .. n -> 1 .. MaxCap]
    /\ criteria \in Criteria
    /\ weights = WeightList(criteria, M)
    /\ ys = Start(FALSE)
    /\ ysE = Start(TRUE)
    /\ envy = <<>>
    /\ rr = <<>>

(* Both engines take their next outer iteration; a run that has ended      *)
(* stays as it is.                                                         *)
Iteration ==
    /\ Running(ys) \/ Running(ysE)
    /\ \E p \in Paths(ys) :
          \E pE \in (IF Running(ys) /\ Running(ysE) /\ Extended(ys) = Extended(ysE)
                     THEN {p} ELSE Paths(ysE)) :
             /\ ys' = IF Running(ys) THEN general_yankee_swap(ys, p) ELSE ys
             /\ ysE' = IF Running(ysE) THEN general_yankee_swap_E(ysE, pE) ELSE ysE
    /\ UNCHANGED <<agents, items, criteria, weights, envy, rr>>

Next == Iteration

Spec == Init /\ [][Next]_vars

(* Runs whose transfer chains can pass through MaxItems + 1 items: every   *)
(* agent is of a kind with overlapping items, under LorenzDominance.       *)
ChainKinds == {"clash", "scenarioA"}

InitChain ==
    /\ agents \in [1 .. MaxAgents -> ChainKinds]
    /\ items \in [1 .. MaxItems + 1 -> 1 .. MaxCap]
    /\ criteria = "LorenzDominance"
    /\ weights = WeightList(criteria, M)
    /\ ys = Start(FALSE)
    /\ ysE = Start(TRUE)
    /\ envy = <<>>
    /\ rr = <<>>

SpecChain == InitChain /\ [][Next]_vars

(* Runs on any configuration the engines accept: a capacity may be 0 or    *)
(* negative, and the weights list may stop before the last agent.          *)
ConfigKinds == {"additive", "first"}

InitConfig ==
    /\ \E m \in 1 .. MaxAgents : agents \in [1 .. m -> ConfigKinds]
    /\ \E n \in 1 .. MaxItems : items \in [1 .. n -> (-1) .. MaxCap]
    /\ criteria \in Criteria
    /\ weights \in {SubSeq(WeightList(criteria, M), 1, k) :
                       k \in 0 .. Len(WeightList(criteria, M))}
    /\ ys = Start(FALSE)
    /\ ysE = Start(TRUE)
    /\ envy = <<>>
    /\ rr = <<>>

SpecConfig == InitConfig /\ [][Next]_vars

(* --------------------------- envy metrics ------------------------------ *)
(* envy_count after a loop that adds the entries of q one by one.          *)
RECURSIVE SumSeq(_)
SumSeq(q) == IF q = <<>> THEN 0 ELSE Head(q) + SumSeq(Tail(q))

(* The bundle as the list get_bundle_from_allocation_matrix builds: the    *)
(* items of the agent in increasing index.                                 *)
RECURSIVE get_bundle_list(_, _, _)
get_bundle_list(X, agent_index, i) ==
    IF i = N THEN <<>>
    ELSE (IF X[i][agent_index] = 1 THEN <<i>> ELSE <<>>) \o get_bundle_list(X, agent_index, i + 1)

(* new_bundle after new_bundle.pop(index), index counted from 1 here.      *)
Pop(list, index) ==
    [k \in 1 .. (Len(list) - 1) |-> IF k < index THEN list[k] ELSE list[k + 1]]

Range(list) == {list[k] : k \in 1 .. Len(list)}

(* agent_index's valuation of its own bundle and of agent_2_index's.       *)
current_utility(X, agent_index) ==
    valuation(agents[agent_index + 1], Range(get_bundle_list(X, agent_index, 0)))

other_utility(X, agent_index, agent_2_index) ==
    valuation(agents[agent_index + 1], Range(get_bundle_list(X, agent_2_index, 0)))

(* The value agent_index gives to agent_2_index's bundle once the item at  *)
(* position index of it is popped.                                         *)
new_utility(X, agent_index, agent_2_index, index) ==
    valuation(agents[agent_index + 1], Range(Pop(get_bundle_list(X, agent_2_index, 0), index)))

(* The pairs (agent_index, agent_2_index) in the order the two for loops   *)
(* visit them, and those of one agent_index.                               *)
Pairs == {pr \in AgentIdx \X AgentIdx : pr[1] # pr[2]}

PairLoop ==
    [k \in 1 .. (M * M) |-> <<(k - 1) \div M, (k - 1) % M>>]

Envies(X, a, a2) == current_utility(X, a) < other_utility(X, a, a2)

(* The for loop over the envied bundle in EF_1_count, from position index  *)
(* on: TRUE when it ends with there_is_no_item still True.                 *)
RECURSIVE there_is_no_item_loop(_, _, _, _)
there_is_no_item_loop(X, a, a2, index) ==
    IF index > Len(get_bundle_list(X, a2, 0)) THEN TRUE
    ELSE IF new_utility(X, a, a2, index) <= current_utility(X, a) THEN FALSE
    ELSE there_is_no_item_loop(X, a, a2, index + 1)

there_is_no_item_strict(X, a, a2) ==
    \A index \in 1 .. Len(get_bundle_list(X, a2, 0)) :
        ~(new_utility(X, a, a2, index) < current_utility(X, a))

there_is_no_item(X, a, a2) == there_is_no_item_loop(X, a, a2, 1)

(* The for loop over the envied bundle in EF_X_count: TRUE when it ends    *)
(* with not_for_every_item set.                                            *)
RECURSIVE not_for_every_item_loop(_, _, _, _)
not_for_every_item_loop(X, a, a2, index) ==
    IF index > Len(get_bundle_list(X, a2, 0)) THEN FALSE
    ELSE IF current_utility(X, a) < new_utility(X, a, a2, index) THEN TRUE
    ELSE not_for_every_item_loop(X, a, a2, index + 1)

not_for_every_item_margin(X, a, a2) ==
    \E index \in 1 .. Len(get_bundle_list(X, a2, 0)) :
        current_utility(X, a) + 1 < new_utility(X, a, a2, index)

not_for_every_item_ties(X, a, a2) ==
    \E index \in 1 .. Len(get_bundle_list(X, a2, 0)) :
        current_utility(X, a) <= new_utility(X, a, a2, index)

not_for_every_item(X, a, a2) == not_for_every_item_loop(X, a, a2, 1)

(* What one pass of the inner loop adds to envy_count.                     *)
Added(test) == IF test THEN 1 ELSE 0

EF_count_once(X) ==
    SumSeq([k \in 1 .. M |-> Added(\E pr \in Pairs : pr[1] = k - 1 /\ Envies(X, k - 1, pr[2]))])

EF_count_ties(X) ==
    SumSeq([k \in 1 .. (M * M) |->
              Added(PairLoop[k][1] # PairLoop[k][2]
                    /\ current_utility(X, PairLoop[k][1])
                         <= other_utility(X, PairLoop[k][1], PairLoop[k][2]))])

EF_count(X) ==
    SumSeq([k \in 1 .. (M * M) |->
              Added(PairLoop[k][1] # PairLoop[k][2]
                    /\ Envies(X, PairLoop[k][1], PairLoop[k][2]))])

(* The test one pass of the inner loop of a metric makes on the pair       *)
(* (a, a2) before it adds to envy_count.                                   *)
Counted(metric, X, a, a2) ==
    /\ a # a2
    /\ Envies(X, a, a2)
    /\ CASE metric = "EF" -> TRUE
         [] metric = "EF_1" -> there_is_no_item(X, a, a2)
         [] metric = "EF_X" -> not_for_every_item(X, a, a2)

(* The inner loop of an _agents metric from agent_2_index = a2 on: it adds *)
(* 1 and breaks at the first pair it counts.                               *)
RECURSIVE agents_loop(_, _, _, _)
agents_loop(metric, X, a, a2) ==
    IF a2 = M THEN 0
    ELSE IF Counted(metric, X, a, a2) THEN 1
    ELSE agents_loop(metric, X, a, a2 + 1)

EF_agents_every_pair(X) == EF_count(X)

EF_agents(X) == SumSeq([k \in 1 .. M |-> agents_loop("EF", X, k - 1, 0)])

EF_1_count(X) ==
    SumSeq([k \in 1 .. (M * M) |->
              Added(/\ PairLoop[k][1] # PairLoop[k][2]
                    /\ Envies(X, PairLoop[k][1], PairLoop[k][2])
                    /\ there_is_no_item(X, PairLoop[k][1], PairLoop[k][2]))])

EF_1_agents(X) == SumSeq([k \in 1 .. M |-> agents_loop("EF_1", X, k - 1, 0)])

EF_X_count(X) ==
    SumSeq([k \in 1 .. (M * M) |->
              Added(/\ PairLoop[k][1] # PairLoop[k][2]
                    /\ Envies(X, PairLoop[k][1], PairLoop[k][2])
                    /\ not_for_every_item(X, PairLoop[k][1], PairLoop[k][2]))])

EF_X_agents(X) == SumSeq([k \in 1 .. M |-> agents_loop("EF_X", X, k - 1, 0)])

(* The metrics are called on any 0/1 matrix, feasible or not; they read    *)
(* the agents' columns only.                                               *)
EnvyKinds == {"additive", "clash", "first", "loner"}

InitEnvy ==
    /\ \E m \in 1 .. MaxAgents : agents \in [1 .. m -> EnvyKinds]
    /\ \E n \in 1 .. MaxItems : items \in [1 .. n -> {1}]
    /\ criteria = "LorenzDominance"
    /\ weights = <<>>
    /\ ys = Start(FALSE)
    /\ ysE = Start(TRUE)
    /\ rr = <<>>
    /\ \E X \in [ItemIdx -> [Columns -> {0, 1}]] :
          /\ \A i \in ItemIdx : X[i][M] = 0
          /\ envy = [X |-> X, measured |-> FALSE, again |-> FALSE,
                     EF |-> 0, EF_a |-> 0, EF_1 |-> 0, EF_1_a |-> 0, EF_X |-> 0, EF_X_a |-> 0]

(* The matrix and the six values after one more call of each metric on    *)
(* the matrix of e: the metrics build their bundles as new lists, pop from *)
(* a copy, and assign nothing to X.                                        *)
Called_pops_matrix(e) ==
    [X |-> [i \in ItemIdx |-> [c \in Columns |-> IF c = 0 THEN 0 ELSE e.X[i][c]]],
     measured |-> TRUE, again |-> e.measured,
     EF |-> EF_count(e.X), EF_a |-> EF_agents(e.X),
     EF_1 |-> EF_1_count(e.X), EF_1_a |-> EF_1_agents(e.X),
     EF_X |-> EF_X_count(e.X), EF_X_a |-> EF_X_agents(e.X)]

Called(e) ==
    [X |-> e.X, measured |-> TRUE, again |-> e.measured,
     EF |-> EF_count(e.X), EF_a |-> EF_agents(e.X),
     EF_1 |-> EF_1_count(e.X), EF_1_a |-> EF_1_agents(e.X),
     EF_X |-> EF_X_count(e.X), EF_X_a |-> EF_X_agents(e.X)]

(* The metrics are called on the matrix, and once more on what the first   *)
(* calls left.                                                             *)
Measure ==
    /\ ~envy.again
    /\ envy' = Called(envy)
    /\ UNCHANGED <<agents, items, criteria, weights, ys, ysE, rr>>

NextEnvy == Measure

EnvySpec == InitEnvy /\ [][NextEnvy]_vars

(* ------------------------- round_robin_weights ------------------------- *)
(* The for loop over desired_items from index item on, in increasing       *)
(* index: current_item after it, None for the empty list. The capacity     *)
(* test reads column 0 of X.                                               *)
RECURSIVE current_item(_, _, _, _, _)
current_item(X, player, item, val, chosen) ==
    LET kind == agents[player + 1]
        current_val == marginal_contribution(kind, get_bundle_from_allocation_matrix(X, player),
                                             item)
    IN IF item = N THEN chosen
       ELSE IF item \in get_desired_items_indexes(kind) /\ X[item][0] > 0 /\ current_val > val
       THEN current_item(X, player, item + 1, current_val, item)
       ELSE current_item(X, player, item + 1, val, chosen)

(* The state of round_robin_weights before its while loop is entered;      *)
(* index is the position of the for loop in players, None outside it.      *)
StartRR ==
    [X |-> initialize_allocation_matrix,
     players |-> [k \in 1 .. M |-> k - 1],
     weights_aux |-> weights,
     weight |-> None,
     index |-> None,
     status |-> "running"]

RRKinds == {"additive", "first", "clash"}

InitRR ==
    /\ \E m \in 1 .. MaxAgents : agents \in [1 .. m -> RRKinds]
    /\ \E n \in 1 .. MaxItems : items \in [1 .. n -> 1 .. MaxCap]
    /\ criteria = "LorenzDominance"
    /\ weights \in [1 .. M -> 1 .. MaxWeight]
    /\ ys = Start(FALSE)
    /\ ysE = Start(TRUE)
    /\ envy = <<>>
    /\ rr = StartRR

(* The test of the while loop and, when it passes, the read of the weight  *)
(* that plays in the coming pass over players.                             *)
rr_while ==
    /\ rr.status = "running"
    /\ rr.index = None
    /\ rr' = IF Len(rr.players) = 0 THEN [rr EXCEPT !.status = "returned"]
             ELSE IF Len(rr.weights_aux) = 0 THEN [rr EXCEPT !.status = "IndexError"]
             ELSE [rr EXCEPT !.weight = rr.weights_aux[1], !.index = 0]
    /\ UNCHANGED <<agents, items, criteria, weights, ys, ysE, envy>>

(* One step of "for player in players": the list iterator moves on by     *)
(* position, also when the body has removed the player it stands on.       *)
rr_for ==
    /\ rr.status = "running"
    /\ rr.index # None
    /\ rr' =
         IF rr.index >= Len(rr.players) THEN [rr EXCEPT !.index = None]
         ELSE LET player == rr.players[rr.index + 1]
                  item == current_item(rr.X, player, 0, 0, None)
              IN IF weights[player + 1] # rr.weight THEN [rr EXCEPT !.index = @ + 1]
                 ELSE IF item # None
                 THEN [rr EXCEPT
                         !.X = SetEntry(SetEntry(rr.X, item, player, 1), item, 0,
                                        SetEntry(rr.X, item, player, 1)[item][0] - 1),
                         !.index = @ + 1]
                 ELSE IF Len(rr.weights_aux) = 0
                 THEN [rr EXCEPT !.players = Remove(rr.players, player),
                                 !.status = "IndexError"]
                 ELSE [rr EXCEPT !.players = Remove(rr.players, player),
                                 !.weights_aux = Tail(rr.weights_aux),
                                 !.index = @ + 1]
    /\ UNCHANGED <<agents, items, criteria, weights, ys, ysE, envy>>

NextRR == rr_while \/ rr_for

(* The function runs on: a pass or a turn that can be taken is taken.      *)
RRSpec == InitRR /\ [][NextRR]_vars /\ WF_vars(NextRR)

(* ============================== claims ================================= *)
SumCap == SumSeq(items)
Holders(X, i) == SumSeq([k \in 1 .. M |-> X[i][k - 1]])
TotalSlack(X) == SumSeq([k \in 1 .. N |-> X[k - 1][M]])

(* A run is at an outer-iteration boundary: it has not been ended by an    *)
(* exception in the middle of an iteration.                                *)
Boundary(run) == run.status \in {"running", "returned"}

Applied(run) == Boundary(run) /\ run.last.path # <<>>

Bundle(run, j) == get_bundle_from_allocation_matrix(run.X, j)

(* C1: at every outer-iteration boundary of either variant, for every item *)
(* the number of agents holding it plus its slack equals its capacity.     *)
CapacityConservation ==
    \A run \in {ys, ysE} : Boundary(run) =>
        \A i \in ItemIdx : Holders(run.X, i) + run.X[i][M] = items[i + 1]

(* C2: when both variants have returned on the same input, their final     *)
(* allocation matrices are identical.                                      *)
VariantEquivalence ==
    (ys.status = "returned" /\ ysE.status = "returned") => ys.X = ysE.X

(* C3: the number of outer iterations of either variant never exceeds the  *)
(* sum of the capacities plus the number of agents; at every boundary the  *)
(* iterations made, the slack left and the agents still playing add up to  *)
(* exactly that number, so each iteration uses up one unit and the loop    *)
(* ends; a run that returned has no player left.                           *)
IterationBound ==
    \A run \in {ys, ysE} :
        /\ run.count <= SumCap + M
        /\ Boundary(run) => run.count + TotalSlack(run.X) + Len(run.players) = SumCap + M
        /\ run.status = "returned" => run.players = <<>>
        /\ Running(run) => run.players # <<>>

(* C3 witness: both variants returned after exactly sum of capacities + M  *)
(* iterations, with several agents and items.                              *)
IterationBoundReached ==
    /\ M >= 2 /\ N >= 2
    /\ ys.status = "returned" /\ ysE.status = "returned"
    /\ ys.count = SumCap + M /\ ysE.count = SumCap + M

(* C4: after every iteration that applied a path, the picked agent values  *)
(* its bundle strictly more than before the transfer.                      *)
Monotonicity ==
    \A run \in {ys, ysE} : Applied(run) =>
        valuation(agents[run.last.agent_picked + 1], Bundle(run, run.last.agent_picked))
            > run.last.val_before

(* C5: at every outer-iteration boundary of either variant every item of   *)
(* every agent's bundle is one of that agent's desired items.              *)
BundleWithinDesired ==
    \A run \in {ys, ysE} : Boundary(run) =>
        \A j \in AgentIdx : Bundle(run, j) \subseteq get_desired_items_indexes(agents[j + 1])

(* C6: when a variant has returned, attaching any agent's source edges to  *)
(* the final exchange graph gives no path from "s" to "t".                 *)
NoAugmentingPathOnReturn ==
    \A run \in {ys, ysE} : run.status = "returned" =>
        \A j \in AgentIdx :
            find_shortest_path(add_agent_to_exchange_graph(run.X, run.G, j)) = {}

(* C7 as stated: EF_X_count <= EF_1_count <= EF_count on every matrix.     *)
FairnessOrderingAsStated ==
    envy.measured => (envy.EF_X <= envy.EF_1 /\ envy.EF_1 <= envy.EF)

(* No agent values the empty bundle above its own bundle.                  *)
NoEnvyOfEmpty ==
    \A a \in AgentIdx : ~(current_utility(envy.X, a) < valuation(agents[a + 1], {}))

(* C7 amended: EF_1_count <= EF_count and EF_X_count <= EF_count on every  *)
(* matrix, and EF_1_count <= EF_X_count when no agent values the empty     *)
(* bundle above its own.                                                   *)
FairnessOrdering ==
    envy.measured =>
        /\ envy.EF_1 <= envy.EF
        /\ envy.EF_X <= envy.EF
        /\ NoEnvyOfEmpty => envy.EF_1 <= envy.EF_X

(* C7 witness: a measured matrix on which the three counts are positive    *)
(* and pairwise different.                                                 *)
FairnessOrderingStrict ==
    /\ envy.measured
    /\ NoEnvyOfEmpty
    /\ 0 < envy.EF_1 /\ envy.EF_1 < envy.EF_X /\ envy.EF_X < envy.EF

(* C8: whenever a hop of the applied chain had no owner willing to make    *)
(* it, the run has ended with an error and that hop was the last one the   *)
(* chain made.                                                             *)
AbortsWithoutWillingOwner ==
    \A run \in {ys, ysE} :
        \A k \in 1 .. Len(run.last.hops) :
            ~run.last.hops[k].willing =>
                /\ ~Boundary(run)
                /\ k = Len(run.last.hops)

(* C9: at every SELECT the gain of every active agent is the criterion's   *)
(* value on the agent's current bundle.                                    *)
GainVectorCorrect ==
    \A run \in {ys, ysE} : Running(run) =>
        \A k \in 1 .. Len(run.players) :
            GainEq(run.gain_vector[run.players[k]],
                   get_gain_function(run.X, run.players[k]))

(* C10: the agent picked in the last iteration was active, no active agent *)
(* had a larger gain, and every active agent of lower index had a smaller  *)
(* gain.                                                                   *)
SelectLowestActiveArgmax ==
    \A run \in {ys, ysE} : run.last.agent_picked # None =>
        LET p == run.last.agent_picked
            g == run.last.gain_before
            active == {run.last.players_before[k] : k \in 1 .. Len(run.last.players_before)}
        IN /\ p \in active
           /\ \A k \in active : ~GainLess(g[p], g[k])
           /\ \A k \in active : k < p => GainLess(g[k], g[p])

(* C10 witness: the picked agent follows a saturated agent of lower index  *)
(* and ties with an active agent of higher index.                          *)
SelectSkipsSaturated ==
    \E run \in {ys, ysE} :
        /\ run.last.agent_picked > 0
        /\ LET p == run.last.agent_picked
               g == run.last.gain_before
               active == {run.last.players_before[k] : k \in 1 .. Len(run.last.players_before)}
           IN /\ \E k \in AgentIdx \ active : k < p
              /\ \E k \in active : k > p /\ GainEq(g[k], g[p])

(* One iteration of a run, from old to new, keeps saturation: the agent    *)
(* whose search found no path is out of players with gain -inf, and an     *)
(* agent whose gain was -inf is not picked, stays out of players and keeps *)
(* gain -inf.                                                              *)
KeepsSaturation(old, new) ==
    new.count > old.count =>
        \A j \in AgentIdx :
            /\ (new.last.agent_picked = j /\ new.last.path = <<>>) =>
                   (new.gain_vector[j] = NegInf /\ ~InList(j, new.players))
            /\ old.gain_vector[j] = NegInf =>
                   /\ new.last.agent_picked # j
                   /\ new.gain_vector[j] = NegInf
                   /\ ~InList(j, new.players)

(* C11: saturation is permanent in both variants: once an agent's search   *)
(* finds no path it leaves players with gain -inf, and in every later      *)
(* iteration it is not picked and its gain stays -inf.                     *)
SaturationPermanent == [][KeepsSaturation(ys, ys') /\ KeepsSaturation(ysE, ysE')]_vars

(* C11 witness: a path was applied in an iteration that followed the       *)
(* saturation of another agent.                                            *)
TransferAfterSaturation ==
    \E run \in {ys, ysE} :
        /\ Applied(run)
        /\ \E j \in AgentIdx : run.gain_vector[j] = NegInf /\ ~InList(j, run.players)

(* The criterion reads weights and the list has no entry for some agent.   *)
MissingWeight == NeedsWeight /\ Len(weights) < M

(* C12: a run whose criterion needs weights and whose weights list lacks   *)
(* an entry makes no outer iteration: its count stays 0 and its allocation *)
(* matrix stays the initial one.                                           *)
FailsFastOnMissingWeight ==
    MissingWeight =>
        \A run \in {ys, ysE} : run.count = 0 /\ run.X = initialize_allocation_matrix

(* C13: a run with an item of capacity <= 0 makes no outer iteration; no   *)
(* unit of that item is ever held and its slack is never lowered.          *)
FailsFastOnBadCapacity ==
    \A i \in ItemIdx : items[i + 1] <= 0 =>
        \A run \in {ys, ysE} :
            /\ run.count = 0
            /\ Holders(run.X, i) = 0
            /\ run.X[i][M] = items[i + 1]

(* C14: at every outer-iteration boundary of either variant every entry of *)
(* an agent's column is 0 or 1 and every slack entry is >= 0.              *)
WellFormedMatrix ==
    \A run \in {ys, ysE} : Boundary(run) =>
        \A i \in ItemIdx :
            /\ \A j \in AgentIdx : run.X[i][j] \in {0, 1}
            /\ run.X[i][M] >= 0

(* The pairs of distinct items.                                            *)
ItemPairs == {pr \in ItemIdx \X ItemIdx : pr[1] # pr[2]}

(* C15: at every outer-iteration boundary of general_yankee_swap_E the     *)
(* graph has the edge a -> b, for distinct items a and b, exactly when     *)
(* E[a][b] is non-empty.                                                   *)
EdgeMatrixConsistent ==
    Boundary(ysE) =>
        \A pr \in ItemPairs : (pr \in ysE.G.edges) <=> (Len(ysE.E[pr[1]][pr[2]]) > 0)

(* C15 witness: after a chain with an exchange, one pair of items has two  *)
(* responsible agents and another pair has lost its last one.              *)
EdgeMatrixExercised ==
    /\ Applied(ysE)
    /\ Len(ysE.last.hops) > 0
    /\ \E pr \in ItemPairs : Len(ysE.E[pr[1]][pr[2]]) >= 2
    /\ \E pr \in ItemPairs :
          /\ pr[1] = ysE.last.hops[1].out
          /\ Len(ysE.E[pr[1]][pr[2]]) = 0
          /\ pr \notin ysE.G.edges

(* Scenario A: item 0 is C, items 1 and 2 are A and B; agent 0 values a    *)
(* bundle by its size and at 0 once it holds C, agent 1 values C only.     *)
ScenarioA ==
    /\ agents = <<"scenarioA", "first">>
    /\ items = <<1, 1, 1>>
    /\ criteria = "LorenzDominance"

(* C16: on Scenario A neither variant ends with an exception, and a run    *)
(* that returned gave A and B to agent 0, C to agent 1, with EF_count 0.   *)
ScenarioAResult ==
    ScenarioA =>
        \A run \in {ys, ysE} :
            /\ Boundary(run)
            /\ run.status = "returned" =>
                  /\ Bundle(run, 0) = {1, 2}
                  /\ Bundle(run, 1) = {0}
                  /\ EF_count(run.X) = 0

(* C16 witness: both variants have returned on Scenario A.                 *)
ScenarioAReturned ==
    ScenarioA /\ ys.status = "returned" /\ ysE.status = "returned"

(* Scenario B: one item of capacity 2 and two agents that value one unit   *)
(* of it at 1.                                                             *)
ScenarioB ==
    /\ items = <<2>>
    /\ M = 2
    /\ \A k \in 1 .. M : agents[k] \in {"additive", "first", "clash"}

(* C17: on Scenario B, under every criterion, neither variant ends with an *)
(* exception, the units held and the slack always add up to 2, and a run   *)
(* that returned left one unit with each agent and slack 0.                *)
ScenarioBResult ==
    ScenarioB =>
        \A run \in {ys, ysE} :
            /\ Boundary(run)
            /\ run.X[0][0] + run.X[0][1] + run.X[0][M] = 2
            /\ run.status = "returned" =>
                  /\ run.X[0][0] = 1
                  /\ run.X[0][1] = 1
                  /\ run.X[0][M] = 0

(* C17 witness: both variants have returned on Scenario B.                 *)
ScenarioBReturned ==
    ScenarioB /\ ys.status = "returned" /\ ysE.status = "returned"

(* The agents of Scenario C: those whose list of desired items is empty.   *)
DesiresNothing(j) == get_desired_items_indexes(agents[j + 1]) = {}

(* C18: an agent that desires no item holds none at any iteration          *)
(* boundary, and every iteration that picked it found no path and left it  *)
(* out of players with gain -inf.                                          *)
ScenarioCResult ==
    \A run \in {ys, ysE} : \A j \in AgentIdx : DesiresNothing(j) =>
        /\ Boundary(run) => \A i \in ItemIdx : run.X[i][j] = 0
        /\ run.last.agent_picked = j =>
              /\ run.last.path = <<>>
              /\ run.gain_vector[j] = NegInf
              /\ ~InList(j, run.players)

(* C18 witness: a run returned in which an agent that desires nothing was  *)
(* saturated while another agent received an item it shares the value of.  *)
ScenarioCReturned ==
    \E run \in {ys, ysE} : \E j \in AgentIdx :
        /\ DesiresNothing(j)
        /\ valuation(agents[j + 1], ItemIdx) > 0
        /\ run.status = "returned"
        /\ run.gain_vector[j] = NegInf
        /\ \E k \in AgentIdx : Bundle(run, k) # {}

(* Agent i's valuation of agent j's bundle on the measured matrix, and of  *)
(* that bundle without item g.                                             *)
ValueOf(i, j) == valuation(agents[i + 1], {g \in ItemIdx : envy.X[g][j] = 1})

ValueWithout(i, j, g) == valuation(agents[i + 1], {h \in ItemIdx : envy.X[h][j] = 1} \ {g})

EnvyPairs == {pr \in Pairs : ValueOf(pr[1], pr[2]) > ValueOf(pr[1], pr[1])}

(* C19: EF_count is the number of ordered pairs of distinct agents (i, j)  *)
(* with i valuing j's bundle strictly above its own.                       *)
EFCountIsEnvyPairs ==
    envy.measured => envy.EF = Cardinality(EnvyPairs)

(* C19 witness: a measured matrix with two envious pairs, a pair of equal  *)
(* positive valuations and an agent that is envied without envying.        *)
EFCountMixed ==
    /\ envy.measured
    /\ envy.EF >= 2
    /\ \E pr \in Pairs : ValueOf(pr[1], pr[2]) = ValueOf(pr[1], pr[1]) /\ ValueOf(pr[1], pr[1]) > 0
    /\ \E pr \in EnvyPairs : <<pr[2], pr[1]>> \notin EnvyPairs

EF1Pairs ==
    {pr \in EnvyPairs :
        ~\E g \in ItemIdx : /\ envy.X[g][pr[2]] = 1
                            /\ ValueWithout(pr[1], pr[2], g) <= ValueOf(pr[1], pr[1])}

(* C20: EF_1_count is the number of ordered pairs of distinct agents       *)
(* (i, j) where i envies j and no single item of j's bundle, once removed, *)
(* brings i's valuation of the rest down to at most that of its own.       *)
EF1CountIsPairs ==
    envy.measured => envy.EF_1 = Cardinality(EF1Pairs)

(* C20 witness: a measured matrix with an envious pair that is counted and *)
(* one that a removal settles.                                             *)
EF1CountMixed ==
    /\ envy.measured
    /\ EF1Pairs # {}
    /\ EnvyPairs \ EF1Pairs # {}
    /\ \E pr \in EF1Pairs : \E g \in ItemIdx : envy.X[g][pr[2]] = 1

EFXPairs ==
    {pr \in EnvyPairs :
        \E g \in ItemIdx : /\ envy.X[g][pr[2]] = 1
                           /\ ValueWithout(pr[1], pr[2], g) > ValueOf(pr[1], pr[1])}

(* C21: EF_X_count is the number of ordered pairs of distinct agents       *)
(* (i, j) where i envies j and some item of j's bundle, once removed,      *)
(* leaves i's valuation of the rest strictly above that of its own bundle. *)
EFXCountIsPairs ==
    envy.measured => envy.EF_X = Cardinality(EFXPairs)

(* C21 witness: a measured matrix with an envious pair that is counted,    *)
(* one whose every removal ends the envy, and a removal that leaves the    *)
(* two valuations equal.                                                   *)
EFXCountMixed ==
    /\ envy.measured
    /\ EFXPairs # {}
    /\ EnvyPairs \ EFXPairs # {}
    /\ \E pr \in EnvyPairs : \E g \in ItemIdx :
          /\ envy.X[g][pr[2]] = 1
          /\ ValueWithout(pr[1], pr[2], g) = ValueOf(pr[1], pr[1])

(* The agents that are first in some pair of the set prs.                  *)
Firsts(prs) == {pr[1] : pr \in prs}

(* C22: each per-agent metric is the number of agents i with at least one  *)
(* pair (i, j) counted by its per-pair metric, each agent counted once.    *)
AgentsMetricsCountFirsts ==
    envy.measured =>
        /\ envy.EF_a = Cardinality(Firsts(EnvyPairs))
        /\ envy.EF_1_a = Cardinality(Firsts(EF1Pairs))
        /\ envy.EF_X_a = Cardinality(Firsts(EFXPairs))

(* C22 witness: a measured matrix where an agent is first in two counted   *)
(* pairs of each metric, so each per-agent value is below the per-pair one.*)
AgentsMetricsBelowPairs ==
    /\ envy.measured
    /\ 0 < envy.EF_a /\ envy.EF_a < envy.EF
    /\ 0 < envy.EF_1_a /\ envy.EF_1_a < envy.EF_1
    /\ 0 < envy.EF_X_a /\ envy.EF_X_a < envy.EF_X

SeriesStep(old, new) ==
    (Running(old) /\ new # old /\ Boundary(new)) =>
        /\ Len(new.time_steps) = new.count
        /\ SubSeq(new.time_steps, 1, old.count) = old.time_steps
        /\ old.count > 0 => new.time_steps[old.count] <= new.time_steps[new.count]
        /\ new.agents_involved_arr =
              Append(old.agents_involved_arr,
                     IF new.last.path = <<>> THEN 0 ELSE Len(new.last.path) - 2)

(* C24: the two series returned with the matrix hold one entry per outer   *)
(* iteration, in iteration order; the chain-length entry is 0 for an       *)
(* iteration without a path and the number of item nodes of the applied    *)
(* path otherwise.                                                         *)
SeriesPerIteration ==
    [][SeriesStep(ys, ys') /\ SeriesStep(ysE, ysE')]_vars

(* C24 witness: both variants have returned, with an iteration without a   *)
(* path, a direct take and a chain through two items in the series.        *)
SeriesReturned ==
    \A run \in {ys, ysE} :
        /\ run.status = "returned"
        /\ Len(run.agents_involved_arr) = run.count
        /\ \A e \in {0, 1, 2} :
              \E k \in 1 .. run.count : run.agents_involved_arr[k] = e

(* Some agent holding a unit of item a would trade it for item b.          *)
WillingOwner(run, a, b) ==
    \E j \in AgentIdx :
        /\ run.X[a][j] = 1
        /\ exchange_contribution(agents[j + 1], Bundle(run, j), a, b)

(* C25: at every outer-iteration boundary of either variant the graph has  *)
(* the edge a -> b, for distinct items a and b, exactly when some agent    *)
(* holding a has exchange_contribution(its bundle, a, b) true.             *)
ExchangeEdgeMeaning ==
    \A run \in {ys, ysE} : Boundary(run) =>
        \A pr \in ItemPairs : (pr \in run.G.edges) <=> WillingOwner(run, pr[1], pr[2])

(* The two variants are in the same state and the coming iteration applies *)
(* the same transfer to both: same matrix, same graph, same path and the   *)
(* same owners moved along it.                                             *)
SameTransfer ==
    /\ Running(ys) /\ Running(ysE)
    /\ ys.X = ysE.X /\ ys.G = ysE.G
    /\ Applied(ys') /\ Applied(ysE')
    /\ ys'.last.path = ysE'.last.path
    /\ ys'.last.hops = ysE'.last.hops

(* C26: from the same state and with the same transfer, update_allocation_E*)
(* followed by update_exchange_graph_E leaves the same edge set as         *)
(* update_exchange_graph, after every outer iteration of a run.            *)
GraphUpdateEquivalence ==
    [][SameTransfer => ys'.G.edges = ysE'.G.edges]_vars

(* The number of times agent j appears in the list q.                      *)
Occurrences(q, j) == Cardinality({k \in 1 .. Len(q) : q[k] = j})

(* C27: at every outer-iteration boundary of general_yankee_swap_E, for    *)
(* distinct items a and b and every agent j, j is in E[a][b] exactly when  *)
(* j holds a and exchange_contribution(bundle(j), a, b) is true, and j is  *)
(* there at most once.                                                     *)
ExactEdgeResponsibility ==
    Boundary(ysE) =>
        \A pr \in ItemPairs : \A j \in AgentIdx :
            /\ Occurrences(ysE.E[pr[1]][pr[2]], j) <= 1
            /\ InList(j, ysE.E[pr[1]][pr[2]]) <=>
                  /\ ysE.X[pr[1]][j] = 1
                  /\ exchange_contribution(agents[j + 1], Bundle(ysE, j), pr[1], pr[2])

(* C28: at every outer-iteration boundary of either variant and for every  *)
(* item i, the graph has the edge i -> "t" exactly when slack(i) > 0.      *)
SinkEdgeInvariant ==
    \A run \in {ys, ysE} : Boundary(run) =>
        \A i \in ItemIdx : (<<i, t>> \in run.G.edges) <=> (run.X[i][M] > 0)

(* The item nodes of a path "s", i1, .., ik, "t".                          *)
PathItems(path) == {path[k] : k \in 2 .. (Len(path) - 1)}

(* What an iteration that applied a path did to the matrix of a run.       *)
TransferEffect(old, new) ==
    (Running(old) /\ Applied(new)) =>
        LET path == new.last.path
            ik == path[Len(path) - 1]
            p == new.last.agent_picked
        IN /\ \A i \in ItemIdx :
                 new.X[i][M] = old.X[i][M] - (IF i = ik THEN 1 ELSE 0)
           /\ \A i \in PathItems(path) \ {ik} : Holders(new.X, i) = Holders(old.X, i)
           /\ Holders(new.X, ik) = Holders(old.X, ik) + 1
           /\ new.X[path[2]][p] = 1
           /\ \A i \in ItemIdx \ PathItems(path) : new.X[i] = old.X[i]

(* C29: applying a path "s", i1, .., ik, "t" for the picked agent p takes  *)
(* one unit of slack from ik and from no other item, keeps the number of   *)
(* holders of the other path items, gives ik one more holder, leaves p     *)
(* holding i1 and leaves the rows of the items off the path unchanged.     *)
TransferChainEffect ==
    [][TransferEffect(ys, ys') /\ TransferEffect(ysE, ysE')]_vars

(* The items the agent picked in the coming iteration may take from the    *)
(* source: desired, not held, of marginal contribution 1.                  *)
Gate(run) ==
    LET p == argmax(run.gain_vector)
    IN {i \in get_desired_items_indexes(agents[p + 1]) :
           /\ run.X[i][p] # 1
           /\ marginal_contribution(agents[p + 1], Bundle(run, p), i) = 1}

SourceTransient ==
    \A run \in {ys, ysE} : Boundary(run) =>
        /\ run.G.nodes = ItemIdx \cup {t}
        /\ \A e \in run.G.edges : e[1] \in ItemIdx /\ e[2] \in ItemIdx \cup {t}

(* C31 witness: both variants are at the boundary after an iteration that  *)
(* applied a chain through the source, and after one without a path.       *)
SourceGoneAfterChain ==
    \A run \in {ys, ysE} :
        /\ Applied(run)
        /\ Len(run.last.path) > 3
        /\ \E k \in 1 .. run.count : run.agents_involved_arr[k] = 0

(* The nodes reachable from the set of nodes seen along edges of G.        *)
RECURSIVE Reach(_, _)
Reach(G, seen) ==
    LET more == {e[2] : e \in {f \in G.edges : f[1] \in seen}} \ seen
    IN IF more = {} THEN seen ELSE Reach(G, seen \cup more)

(* The sequences of nodes from "s" to "t" that follow edges of G and pass  *)
(* no node twice.                                                          *)
SimplePaths(G) == walks(G, {<<s>>})

(* C32: the search of each iteration returns a path exactly when "t" is    *)
(* reachable from "s" in the extended graph; a returned path goes from "s" *)
(* to "t" along edges, passes each item at most once and has the fewest    *)
(* edges of all paths from "s" to "t".                                     *)
SearchShortestPath ==
    \A run \in {ys, ysE} : Running(run) =>
        LET G == Extended(run)
            found == find_shortest_path(G)
            all == SimplePaths(G)
        IN /\ (found # {}) <=> (t \in Reach(G, {s}))
           /\ \A p \in found :
                 /\ p \in all
                 /\ \A q \in all : Len(p) <= Len(q)

(* C32 witness: a search that returns a path through two items where a    *)
(* longer path to the sink exists as well, and a search in a graph with    *)
(* source edges and no path.                                               *)
SearchHasLongerPath ==
    /\ Running(ys)
    /\ \E p \in find_shortest_path(Extended(ys)) :
          /\ Len(p) = 4
          /\ \E q \in SimplePaths(Extended(ys)) : Len(q) > Len(p)
    /\ Running(ysE)
    /\ find_shortest_path(Extended(ysE)) = {}
    /\ \E e \in Extended(ysE).edges : e[1] = s

(* The items the player could be given on its turn: desired, with          *)
(* remaining capacity in the last column and positive marginal             *)
(* contribution.                                                           *)
Givable(X, player) ==
    {i \in get_desired_items_indexes(agents[player + 1]) :
        /\ X[i][M] > 0
        /\ marginal_contribution(agents[player + 1],
                                 get_bundle_from_allocation_matrix(X, player), i) > 0}

(* The for loop stands on a player whose weight plays in this pass.        *)
OnTurn(player) ==
    /\ rr.status = "running"
    /\ rr.index # None /\ rr.index < Len(rr.players)
    /\ player = rr.players[rr.index + 1]
    /\ weights[player + 1] = rr.weight

(* C33: on its turn in round_robin_weights the playing agent gets one      *)
(* desired item with remaining capacity and positive marginal              *)
(* contribution whenever there is one, and that item's remaining capacity  *)
(* drops by one; the returned matrix has holders plus slack equal to the   *)
(* capacity for every item.                                                *)
RoundRobinGives ==
    [][/\ \A player \in AgentIdx :
             (OnTurn(player) /\ Givable(rr.X, player) # {}) =>
                 \E i \in Givable(rr.X, player) :
                     rr'.X = [rr.X EXCEPT ![i] = [@ EXCEPT ![player] = 1, ![M] = @ - 1]]
       /\ rr'.status = "returned" =>
             \A i \in ItemIdx : Holders(rr'.X, i) + rr'.X[i][M] = items[i + 1]]_vars

(* C40: round_robin_weights terminates for every list of agents and every  *)
(* weights list of the same length: the players list becomes empty and the *)
(* function returns.                                                       *)
RoundRobinTerminates ==
    <>(rr.status = "returned")

(* What an iteration that applied a path did to the agents it did not pick.*)
OthersKeep(old, new) ==
    (Running(old) /\ Applied(new)) =>
        \A j \in AgentIdx \ {new.last.agent_picked} :
            /\ Cardinality(Bundle(new, j)) = Cardinality(Bundle(old, j))
            /\ valuation(agents[j + 1], Bundle(new, j)) = valuation(agents[j + 1], Bundle(old, j))

(* C34: after every successful transfer each agent other than the picked   *)
(* one holds as many items as before and values its new bundle exactly as  *)
(* much as its bundle before, also when it releases items at two hops.     *)
NoIntermediateWorseOff ==
    [][OthersKeep(ys, ys') /\ OthersKeep(ysE, ysE')]_vars

(* C35: at every hop of a transfer chain of either variant, the agent      *)
(* chosen to release item a for item b holds a unit of a and no unit of b  *)
(* at the moment the hop is applied.                                       *)
HopValidity ==
    \A run \in {ys, ysE} :
        \A k \in 1 .. Len(run.last.hops) :
            run.last.hops[k].agent \in AgentIdx =>
                run.last.hops[k].held_out /\ ~run.last.hops[k].held_in

(* The units held in X, over all items and agents.                         *)
HeldUnits(X) == SumSeq([k \in 1 .. N |-> Holders(X, k - 1)])

(* The iterations of a run so far that applied a path.                     *)
Successes(run) ==
    Cardinality({k \in 1 .. Len(run.agents_involved_arr) : run.agents_involved_arr[k] > 0})

(* What an iteration that applied a path did to the picked agent's bundle  *)
(* and to the total slack.                                                 *)
TransferCounts(old, new) ==
    (Running(old) /\ Applied(new)) =>
        /\ Cardinality(Bundle(new, new.last.agent_picked))
              = Cardinality(Bundle(old, new.last.agent_picked)) + 1
        /\ TotalSlack(new.X) = TotalSlack(old.X) - 1

(* C36: each successful transfer adds exactly one item to the picked       *)
(* agent's bundle and takes exactly one unit from the total slack, and at  *)
(* every iteration boundary the number of held units is the number of      *)
(* successful iterations so far.                                           *)
UnitsPerTransfer ==
    [][/\ TransferCounts(ys, ys') /\ TransferCounts(ysE, ysE')
       /\ \A run \in {ys', ysE'} : Boundary(run) => HeldUnits(run.X) = Successes(run)]_vars

(* The entries 0 of the chain-length series of a run.                      *)
Zeros(run) ==
    Cardinality({k \in 1 .. Len(run.agents_involved_arr) : run.agents_involved_arr[k] = 0})

(* What an iteration did to the players of a run: an iteration without a   *)
(* path takes its picked agent, a player until then, off the list, and an  *)
(* iteration with a path leaves the list alone.                            *)
PlayersStep(old, new) ==
    (Running(old) /\ Boundary(new)) =>
        IF new.last.path = <<>>
        THEN /\ InList(new.last.agent_picked, old.players)
             /\ new.players = Remove(old.players, new.last.agent_picked)
             /\ ~InList(new.last.agent_picked, new.players)
        ELSE new.players = old.players

(* C37: every agent is the picked agent of exactly one iteration without   *)
(* a path: in a returned run the chain-length series has exactly M zeros   *)
(* and the number of iterations is M plus the units allocated, the sum of  *)
(* the capacities minus the final total slack.                             *)
OneSaturationPerAgent ==
    [][/\ PlayersStep(ys, ys') /\ PlayersStep(ysE, ysE')
       /\ \A run \in {ys', ysE'} : run.status = "returned" =>
             /\ Zeros(run) = M
             /\ run.count = M + (SumCap - TotalSlack(run.X))]_vars

(* C37 witness: both variants have returned on a run of MaxAgents agents   *)
(* that allocated more than two units and left some slack.                 *)
ReturnedAfterSaturations ==
    \A run \in {ys, ysE} :
        /\ run.status = "returned"
        /\ M = MaxAgents
        /\ SumCap - TotalSlack(run.X) > 2
        /\ TotalSlack(run.X) > 0

(* What an iteration without a path left as it was.                        *)
SaturationFrame(old, new) ==
    (Running(old) /\ Boundary(new) /\ new.last.path = <<>>) =>
        /\ new.X = old.X
        /\ new.G = old.G
        /\ new.E = old.E
        /\ \A j \in AgentIdx \ {new.last.agent_picked} :
              new.gain_vector[j] = old.gain_vector[j]

(* C38: when the search finds no path, the allocation matrix, the item and *)
(* sink edges of the graph, the edge matrix and the gains of the agents    *)
(* other than the picked one are after the iteration what they were before.*)
SaturationChangesNothingElse ==
    [][SaturationFrame(ys, ys') /\ SaturationFrame(ysE, ysE')]_vars

(* C38 witness: both variants are past an iteration without a path, with   *)
(* players left, an edge between items in the graph, a responsible agent   *)
(* in the edge matrix and a unit of slack used up.                         *)
SaturatedWithGraph ==
    /\ \A run \in {ys, ysE} :
          /\ Running(run) /\ run.count > 0 /\ run.last.path = <<>>
          /\ \E pr \in ItemPairs : pr \in run.G.edges
          /\ \E i \in ItemIdx : <<i, t>> \notin run.G.edges
    /\ \E pr \in ItemPairs : Len(ysE.E[pr[1]][pr[2]]) > 0

(* The pairs each per-pair metric adds 1 for on the measured matrix: the   *)
(* tests made before envy_count += 1.                                      *)
CountedEF == {pr \in Pairs : Envies(envy.X, pr[1], pr[2])}

CountedEF1 ==
    {pr \in Pairs : Envies(envy.X, pr[1], pr[2]) /\ there_is_no_item(envy.X, pr[1], pr[2])}

CountedEFX ==
    {pr \in Pairs : Envies(envy.X, pr[1], pr[2]) /\ not_for_every_item(envy.X, pr[1], pr[2])}

(* C39: on any allocation, every pair counted by EF_1_count or by          *)
(* EF_X_count is counted by EF_count, and every pair counted by EF_1_count *)
(* whose envied bundle is not empty is counted by EF_X_count.              *)
EnvyContainment ==
    envy.measured =>
        /\ envy.EF = Cardinality(CountedEF)
        /\ envy.EF_1 = Cardinality(CountedEF1)
        /\ envy.EF_X = Cardinality(CountedEFX)
        /\ CountedEF1 \subseteq CountedEF
        /\ CountedEFX \subseteq CountedEF
        /\ \A pr \in CountedEF1 :
              get_bundle_list(envy.X, pr[2], 0) # <<>> => pr \in CountedEFX

(* C39 witness: a measured matrix with a pair counted by all three         *)
(* metrics, a pair counted by EF_X_count and not by EF_1_count, and a pair *)
(* counted by EF_count only.                                               *)
EnvyContainmentStrict ==
    /\ envy.measured
    /\ CountedEF1 # {}
    /\ CountedEFX \ CountedEF1 # {}
    /\ CountedEF \ CountedEFX # {}

====
